---- MODULE Spec2Model ----
(***************************************************************************)
(* A model of the video-sharing backend: the video request handlers of     *)
(* src/src/utils/asyncHandler.js (each handler is a process whose steps    *)
(* are its awaited database / object-storage calls), the asyncHandler      *)
(* wrapper and the application's error path (src/src/app.js), the User     *)
(* model's password hook, and the pagination options of getVideos.         *)
(***************************************************************************)
EXTENDS Integers, Sequences, FiniteSets, TLC

\* ------------------------------------------------------------------ bounds
MaxInFlight == 2      \* request slots: requests in flight at the same time
MaxRequests == 3      \* requests received in one behaviour
MaxFaults == 1        \* storage / database calls that fail in one behaviour
MaxSaves == 3         \* User saves in one behaviour
MaxLen == 2           \* length of a page / limit query string

VARIABLES
  videos,        \* Video collection: video id -> row
  views,         \* View collection: set of rows [id, video, owner, viewer]
  storage,       \* object storage: the asset ids present
  nextVideoId,   \* ids are fresh (ObjectId / public_id), never reused
  nextAssetId,
  nextViewId,
  reqs,          \* slot -> the request in flight there
  last,          \* the request that finished most recently: its outcome
  total,         \* requests received so far
  faults,        \* failing calls so far
  run,           \* history: the current run of successive, undisturbed requests
  deleted,       \* history: ids whose deleteVideo answered with success
  userDoc,       \* User model: the in-memory document
  userStored,    \* User model: the row in the database
  savedPlain,    \* history: the plaintext last assigned and saved
  saves,         \* User saves so far
  listing        \* the getVideos request: its query, options and response

vars == <<videos, views, storage, nextVideoId, nextAssetId, nextViewId, reqs,
          last, total, faults, run, deleted, userDoc, userStored, savedPlain, saves,
          listing>>

videoVars == <<videos, views, storage, nextVideoId, nextAssetId, nextViewId,
               reqs, last, total, faults, deleted>>
userVars == <<userDoc, userStored, savedPlain, saves>>

\* ------------------------------------------------------------ value domains
Slots == 1..MaxInFlight
Users == {"u1", "u2"}
Texts == {"b"}

NoError == [code |-> 0, message |-> ""]
NoResp == [kind |-> "none", status |-> 0, success |-> FALSE, message |-> ""]
NoVideo == [title |-> "", description |-> "", videoFile |-> 0, thumbnail |-> 0,
            publisher |-> "", isPublished |-> FALSE]
NoKey == <<"", 0, "">>
NoRun == [key |-> NoKey, n |-> 0, cur |-> 0, base |-> NoVideo, last |-> 0]

IdleReq == [pc |-> "idle", kind |-> "", videoId |-> 0, user |-> "",
            title |-> "", description |-> "", files |-> {},
            owner |-> "", old1 |-> 0, old2 |-> 0, new1 |-> 0, new2 |-> 0, flag |-> FALSE,
            stepFailed |-> FALSE, err |-> NoError, resp |-> NoResp,
            nextCalls |-> 0]

\* ------------------------------------------------------- errors, responses
ApiError(code, message) == [code |-> code, message |-> message]

\* A rejected database promise: an error that is no ApiError and has no code.
DbError == [code |-> 0, message |-> "database error"]

ApiResponse(statusCode, message) ==
  [kind |-> "json", status |-> statusCode, success |-> statusCode < 400,
   message |-> message]

\* res.status(s).json(new ApiResponse(c, data, m))
JsonResponse(httpStatus, statusCode, message) ==
  [ApiResponse(statusCode, message) EXCEPT !.status = httpStatus]

\* app.js registers no error-handling middleware, so next(error) ends in the
\* framework's built-in handler: an HTML page, status from err.status /
\* err.statusCode (the error carries neither, only a code), else 500.
ErrorDispatch(err) ==
  [kind |-> "html", status |-> 500, success |-> FALSE, message |-> ""]

\* The finished request: only what the response and the error path show.
Finished(q) ==
  [IdleReq EXCEPT !.pc = "done", !.kind = q.kind, !.videoId = q.videoId,
                  !.stepFailed = q.stepFailed]

\* asyncHandler: Promise.resolve(handler()).catch(error => next(error))
Throw(q, err) ==
  [Finished(q) EXCEPT !.stepFailed = TRUE, !.err = err,
                      !.nextCalls = q.nextCalls + 1, !.resp = ErrorDispatch(err)]

Respond(q, httpStatus, statusCode, message) ==
  [Finished(q) EXCEPT !.resp = JsonResponse(httpStatus, statusCode, message)]

\* ------------------------------------------------- history of undisturbed runs
\* A run is a sequence of requests of one kind on one video (getVideo: by one
\* viewer) that ran one after the other, each from its receipt to its success
\* response, while no other request took a step.
RunKey(q) ==
  IF q.kind = "getVideo" THEN <<q.kind, q.videoId, q.user>>
  ELSE IF q.kind = "togglePublishStatus" THEN <<q.kind, q.videoId, "">>
  ELSE NoKey

Succeeded(q) == q.pc = "done" /\ q.resp.kind = "json" /\ q.resp.success
Failed(q) == q.pc = "done" /\ q.err # NoError

\* The run after slot r's request went from reqs[r] to q.
RunAfter(r, q) ==
  IF reqs[r].pc = "idle"
    THEN IF RunKey(q) = NoKey THEN NoRun
         ELSE IF run.cur = 0 /\ run.key = RunKey(q) THEN [run EXCEPT !.cur = r]
         ELSE [key |-> RunKey(q), n |-> 0, cur |-> r, last |-> 0,
               base |-> IF q.videoId \in DOMAIN videos
                          THEN videos[q.videoId] ELSE NoVideo]
  ELSE IF run.cur = r
    THEN IF q.pc # "done" THEN run
         ELSE IF Succeeded(q)
           THEN [run EXCEPT !.n = @ + 1, !.cur = 0,
                            !.last = IF q.kind = "getVideo" THEN nextViewId ELSE 0]
         ELSE NoRun
  ELSE NoRun

\* A step's new request record: kept in its slot, or, once the handler has
\* answered or thrown, recorded as the last outcome and the slot freed.
Settle(r, q) ==
  /\ IF q.pc = "done"
       THEN reqs' = [reqs EXCEPT ![r] = IdleReq] /\ last' = q
       ELSE reqs' = [reqs EXCEPT ![r] = q] /\ last' = last
  /\ run' = RunAfter(r, q)
  /\ UNCHANGED <<userDoc, userStored, savedPlain, saves, listing>>

Idle(r) == reqs[r].pc = "idle"
Quiescent == \A r \in Slots : Idle(r)
Exists(v) == v \in DOMAIN videos
Without(v) == [x \in DOMAIN videos \ {v} |-> videos[x]]
ViewsOf(v, u) == {w \in views : w.video = v /\ w.viewer = u}


\* ----------------------------------------------------- external collaborators
CanFail == faults < MaxFaults

\* uploadOnCloudinary: the stored asset, or null (0) when the upload fails.
UploadOnCloudinary(ok) ==
  /\ IF ok
       THEN /\ storage' = storage \cup {nextAssetId}
            /\ nextAssetId' = nextAssetId + 1
            /\ faults' = faults
       ELSE /\ CanFail
            /\ faults' = faults + 1
            /\ UNCHANGED <<storage, nextAssetId>>

\* deleteFromCloudinary: removes the asset, or answers null when it fails.
DeleteFromCloudinary(publicId, ok) ==
  /\ IF ok
       THEN /\ storage' = storage \ {publicId}
            /\ faults' = faults
       ELSE /\ CanFail
            /\ faults' = faults + 1
            /\ storage' = storage

\* ------------------------------------------------------------ request intake
Kinds == {"publishVideo", "getVideo", "changeVideoFile", "changeThumbnail",
          "changeTitle", "changeDescription", "togglePublishStatus",
          "deleteVideo"}

\* req.params.videoId: missing (0) or the id of a video that exists or existed.
VideoIdInputs == 0..(nextVideoId - 1)

\* req.body / req.file(s) of each route.
Inputs(kind) ==
  CASE kind = "publishVideo" ->
         [title : Texts \cup {""}, description : Texts \cup {""},
          files : SUBSET {"videoFile", "thumbnail"}, videoId : {0}]
    [] kind \in {"changeVideoFile", "changeThumbnail"} ->
         [title : {""}, description : {""}, files : SUBSET {"file"},
          videoId : VideoIdInputs]
    [] kind = "changeTitle" ->
         [title : Texts \cup {""}, description : {""}, files : {{}},
          videoId : VideoIdInputs]
    [] kind = "changeDescription" ->
         [title : {""}, description : Texts \cup {""}, files : {{}},
          videoId : VideoIdInputs]
    [] OTHER ->
         [title : {""}, description : {""}, files : {{}},
          videoId : VideoIdInputs]

\* req.user is read by publishVideo (the publisher) and getVideo (the viewer).
ReqUsers(kind) ==
  IF kind \in {"publishVideo", "getVideo"} THEN Users ELSE {""}

\* The router hands the request to its handler; the handler has not run yet.
ReceiveOf(r, kinds, max) ==
  /\ Idle(r)
  /\ \A s \in Slots : s < r => ~Idle(s)
  /\ total < max
  /\ \E kind \in kinds :
       \E in \in Inputs(kind), u \in ReqUsers(kind) :
         Settle(r,
                    [IdleReq EXCEPT !.pc = kind, !.kind = kind, !.user = u,
                                    !.videoId = in.videoId, !.title = in.title,
                                    !.description = in.description,
                                    !.files = in.files])
  /\ total' = total + 1
  /\ UNCHANGED <<videos, views, storage, nextVideoId, nextAssetId, nextViewId,
                 faults, deleted>>

Receive(r) == ReceiveOf(r, Kinds, MaxRequests)

\* --------------------------------------------------------------- publishVideo
DefaultPublished == TRUE

PublishVideoUploadVideo(r) ==
  LET q == reqs[r] IN
  /\ q.pc = "publishVideo"
  /\ IF q.title = "" \/ q.description = ""
       THEN /\ Settle(r,
                 Throw(q, ApiError(400, "Title and Description both are required")))
            /\ UNCHANGED <<storage, nextAssetId, faults>>
       ELSE IF q.files # {"videoFile", "thumbnail"}
       THEN /\ Settle(r,
                 Throw(q, ApiError(400, "Video and Thumbnail both are required")))
            /\ UNCHANGED <<storage, nextAssetId, faults>>
       ELSE \E ok \in BOOLEAN :
              /\ UploadOnCloudinary(ok)
              /\ Settle(r,
                   [q EXCEPT !.pc = "pv_upload2",
                             !.new1 = IF ok THEN nextAssetId ELSE 0,
                             !.stepFailed = ~ok])
  /\ UNCHANGED <<videos, views, nextVideoId, nextViewId, total, deleted>>

PublishVideoUploadThumbnail(r) ==
  LET q == reqs[r] IN
  /\ q.pc = "pv_upload2"
  /\ \E ok \in BOOLEAN :
       /\ UploadOnCloudinary(ok)
       /\ IF q.new1 = 0 \/ ~ok
            THEN Settle(r,
                   Throw(q, ApiError(500, "Something went wrong while uploading video and thumbnail in cloudinary")))
            ELSE Settle(r,
                   [q EXCEPT !.pc = "pv_create", !.new2 = nextAssetId])
  /\ UNCHANGED <<videos, views, nextVideoId, nextViewId, total, deleted>>

PublishVideoCreate(r) ==
  LET q == reqs[r] IN
  /\ q.pc = "pv_create"
  /\ videos' = videos @@ (nextVideoId :>
       [title |-> q.title, description |-> q.description,
        videoFile |-> q.new1, thumbnail |-> q.new2, publisher |-> q.user,
        isPublished |-> DefaultPublished])
  /\ nextVideoId' = nextVideoId + 1
  /\ Settle(r, Respond(q, 201, 200, "Video uploaded successfully"))
  /\ UNCHANGED <<views, storage, nextAssetId, nextViewId, total, faults, deleted>>

\* ------------------------------------------------------------------- getVideo
GetVideoAggregate(r) ==
  LET q == reqs[r] IN
  /\ q.pc = "getVideo"
  /\ Settle(r,
       IF q.videoId = 0
         THEN Throw(q, ApiError(400, "Video ID is required"))
       ELSE IF ~Exists(q.videoId)
         THEN Throw(q, ApiError(500, "Something went wrong while fetching the video"))
       ELSE [q EXCEPT !.pc = "gv_delete", !.owner = videos[q.videoId].publisher])
  /\ UNCHANGED <<videos, views, storage, nextVideoId, nextAssetId, nextViewId,
                 total, faults, deleted>>


\* View.findOneAndDelete({video, owner, viewer}): removes one matching row.
GetVideoFindOneAndDelete(r) ==
  LET q == reqs[r]
      matching == {w \in views : /\ w.video = q.videoId
                                 /\ w.owner = q.owner
                                 /\ w.viewer = q.user}
  IN
  /\ q.pc = "gv_delete"
  /\ IF matching = {}
       THEN views' = views
       ELSE \E w \in matching : views' = views \ {w}
  /\ Settle(r, [q EXCEPT !.pc = "gv_create"])
  /\ UNCHANGED <<videos, storage, nextVideoId, nextAssetId, nextViewId, total,
                 faults, deleted>>

GetVideoCreateView(r) ==
  LET q == reqs[r] IN
  /\ q.pc = "gv_create"
  /\ views' = views \cup {[id |-> nextViewId, video |-> q.videoId,
                           owner |-> q.owner, viewer |-> q.user]}
  /\ nextViewId' = nextViewId + 1
  /\ Settle(r, Respond(q, 200, 200, "User fetched successfully"))
  /\ UNCHANGED <<videos, storage, nextVideoId, nextAssetId, total, faults, deleted>>

\* ------------------------------------------- changeVideoFile, changeThumbnail
FileField(kind) == IF kind = "changeVideoFile" THEN "videoFile" ELSE "thumbnail"

ChangeFileFind(r, kind) ==
  LET q == reqs[r] IN
  /\ q.pc = kind
  /\ Settle(r,
       IF q.videoId = 0
         THEN Throw(q, ApiError(400, "Video ID is required"))
       ELSE IF q.files = {}
         THEN Throw(q, ApiError(400, IF kind = "changeVideoFile"
                                       THEN "Video file is missing"
                                       ELSE "Thumbnail is missing"))
       ELSE IF ~Exists(q.videoId)
         THEN Throw(q, ApiError(500, "Something went wrong while fetching the old video"))
       ELSE [q EXCEPT !.pc = "cf_delete",
                      !.old1 = videos[q.videoId][FileField(kind)]])
  /\ UNCHANGED <<videos, views, storage, nextVideoId, nextAssetId, nextViewId,
                 total, faults, deleted>>

ChangeFileDeleteOld(r, kind) ==
  LET q == reqs[r] IN
  /\ q.pc = "cf_delete" /\ q.kind = kind
  /\ \E ok \in BOOLEAN :
       /\ DeleteFromCloudinary(q.old1, ok)
       /\ Settle(r,
            IF ok THEN [q EXCEPT !.pc = "cf_upload"]
            ELSE Throw(q, ApiError(500, IF kind = "changeVideoFile"
                 THEN "Something went wrong while deleting the old video file from cloudinary"
                 ELSE "Something went wrong while deleting the old thumbnail from cloudinary")))
  /\ UNCHANGED <<videos, views, nextVideoId, nextAssetId, nextViewId, total, deleted>>

ChangeFileUploadNew(r, kind) ==
  LET q == reqs[r] IN
  /\ q.pc = "cf_upload" /\ q.kind = kind
  /\ \E ok \in BOOLEAN :
       /\ UploadOnCloudinary(ok)
       /\ Settle(r,
            IF ok THEN [q EXCEPT !.pc = "cf_update", !.new1 = nextAssetId]
            ELSE Throw(q, ApiError(500, IF kind = "changeVideoFile"
                 THEN "Something went wrong while uploading the new video file in cloudinary"
                 ELSE "Something went wrong while uploading the new thumbnail in cloudinary")))
  /\ UNCHANGED <<videos, views, nextVideoId, nextViewId, total, deleted>>

\* Video.findByIdAndUpdate(videoId, {$set: {<field>: new}}, {new: true})
ChangeFileUpdate(r, kind) ==
  LET q == reqs[r] IN
  /\ q.pc = "cf_update" /\ q.kind = kind
  /\ IF Exists(q.videoId)
       THEN /\ videos' = [videos EXCEPT ![q.videoId][FileField(kind)] = q.new1]
            /\ Settle(r, Respond(q, 200, 200,
                 IF kind = "changeVideoFile" THEN "Video file updated successfully"
                                             ELSE "Thumbnail updated successfully"))
       ELSE /\ videos' = videos
            /\ Settle(r, Throw(q, ApiError(500,
                 IF kind = "changeVideoFile"
                   THEN "Something went wrong while updating the video file"
                   ELSE "Something went wrong while updating the thumbnail")))
  /\ UNCHANGED <<views, storage, nextVideoId, nextAssetId, nextViewId, total,
                 faults, deleted>>

ChangeVideoFileFind(r) == ChangeFileFind(r, "changeVideoFile")
ChangeVideoFileDeleteOld(r) == ChangeFileDeleteOld(r, "changeVideoFile")
ChangeVideoFileUploadNew(r) == ChangeFileUploadNew(r, "changeVideoFile")
ChangeVideoFileUpdate(r) == ChangeFileUpdate(r, "changeVideoFile")
ChangeThumbnailFind(r) == ChangeFileFind(r, "changeThumbnail")
ChangeThumbnailDeleteOld(r) == ChangeFileDeleteOld(r, "changeThumbnail")
ChangeThumbnailUploadNew(r) == ChangeFileUploadNew(r, "changeThumbnail")
ChangeThumbnailUpdate(r) == ChangeFileUpdate(r, "changeThumbnail")

\* ---------------------------------------------- changeTitle, changeDescription
ChangeTitle(r) ==
  LET q == reqs[r] IN
  /\ q.pc = "changeTitle"
  /\ IF q.videoId # 0 /\ q.title # "" /\ Exists(q.videoId)
       THEN /\ videos' = [videos EXCEPT ![q.videoId].title = q.title]
            /\ Settle(r,
                 Respond(q, 200, 200, "Video title updated successfully"))
       ELSE /\ videos' = videos
            /\ Settle(r,
                 IF q.videoId = 0
                   THEN Throw(q, ApiError(400, "Video ID is required"))
                 ELSE IF q.title = ""
                   THEN Throw(q, ApiError(400, "Title is missing"))
                 ELSE Throw(q, ApiError(500, "Something went wrong while updating the video title")))
  /\ UNCHANGED <<views, storage, nextVideoId, nextAssetId, nextViewId, total,
                 faults, deleted>>

ChangeDescription(r) ==
  LET q == reqs[r] IN
  /\ q.pc = "changeDescription"
  /\ IF q.videoId # 0 /\ q.description # "" /\ Exists(q.videoId)
       THEN /\ videos' = [videos EXCEPT ![q.videoId].description = q.description]
            /\ Settle(r,
                 Respond(q, 200, 200, "Video description updated successfully"))
       ELSE /\ videos' = videos
            /\ Settle(r,
                 IF q.videoId = 0
                   THEN Throw(q, ApiError(400, "Video ID is required"))
                 ELSE IF q.description = ""
                   THEN Throw(q, ApiError(400, "description is missing"))
                 ELSE Throw(q, ApiError(500, "Something went wrong while updating the video description")))
  /\ UNCHANGED <<views, storage, nextVideoId, nextAssetId, nextViewId, total,
                 faults, deleted>>

\* -------------------------------------------------------- togglePublishStatus
TogglePublishStatusFind(r) ==
  LET q == reqs[r] IN
  /\ q.pc = "togglePublishStatus"
  /\ Settle(r,
       IF q.videoId = 0
         THEN Throw(q, ApiError(400, "Video ID is required"))
       ELSE IF ~Exists(q.videoId)
         THEN Throw(q, ApiError(500, "Something went wrong while fetching the video"))
       ELSE [q EXCEPT !.pc = "tp_save", !.flag = videos[q.videoId].isPublished])
  /\ UNCHANGED <<videos, views, storage, nextVideoId, nextAssetId, nextViewId,
                 total, faults, deleted>>

\* A toggle that always publishes.
ToggledStuck(isPublished) == TRUE

\* video.isPublished = !video.isPublished, on the document that was fetched
Toggled(isPublished) == ~isPublished

\* video.save(): writes the modified path; rejects when the row is gone.
TogglePublishStatusSave(r) ==
  LET q == reqs[r] IN
  /\ q.pc = "tp_save"
  /\ IF Exists(q.videoId)
       THEN /\ videos' = [videos EXCEPT ![q.videoId].isPublished = Toggled(q.flag)]
            /\ Settle(r,
                 Respond(q, 200, 200, "Publish status toggled successfully"))
       ELSE /\ videos' = videos
            /\ Settle(r, Throw(q, DbError))
  /\ UNCHANGED <<views, storage, nextVideoId, nextAssetId, nextViewId, total,
                 faults, deleted>>

\* ---------------------------------------------------------------- deleteVideo
DeleteVideoFind(r) ==
  LET q == reqs[r] IN
  /\ q.pc = "deleteVideo"
  /\ Settle(r,
       IF q.videoId = 0
         THEN Throw(q, ApiError(400, "Video ID is required"))
       ELSE IF ~Exists(q.videoId)
         THEN Throw(q, ApiError(500, "Something went wrong while fetching the video"))
       ELSE [q EXCEPT !.pc = "dv_file", !.old1 = videos[q.videoId].videoFile,
                      !.old2 = videos[q.videoId].thumbnail])
  /\ UNCHANGED <<videos, views, storage, nextVideoId, nextAssetId, nextViewId,
                 total, faults, deleted>>

\* await deleteFromCloudinary(...): the answer is not looked at.
DeleteVideoDeleteFile(r) ==
  LET q == reqs[r] IN
  /\ q.pc = "dv_file"
  /\ \E ok \in BOOLEAN :
       /\ DeleteFromCloudinary(q.old1, ok)
       /\ Settle(r,
            [q EXCEPT !.pc = "dv_thumb", !.stepFailed = q.stepFailed \/ ~ok])
  /\ UNCHANGED <<videos, views, nextVideoId, nextAssetId, nextViewId, total, deleted>>

DeleteVideoDeleteThumbnail(r) ==
  LET q == reqs[r] IN
  /\ q.pc = "dv_thumb"
  /\ \E ok \in BOOLEAN :
       /\ DeleteFromCloudinary(q.old2, ok)
       /\ Settle(r,
            [q EXCEPT !.pc = "dv_row", !.stepFailed = q.stepFailed \/ ~ok])
  /\ UNCHANGED <<videos, views, nextVideoId, nextAssetId, nextViewId, total, deleted>>

DeleteVideoDeleteRow(r) ==
  LET q == reqs[r] IN
  /\ q.pc = "dv_row"
  /\ IF Exists(q.videoId)
       THEN /\ videos' = Without(q.videoId)
            /\ Settle(r, [q EXCEPT !.pc = "dv_views"])
       ELSE /\ videos' = videos
            /\ Settle(r,
                 Throw(q, ApiError(500, "Something went wrong while deleting the video")))
  /\ UNCHANGED <<views, storage, nextVideoId, nextAssetId, nextViewId, total,
                 faults, deleted>>

DeleteVideoDeleteViews(r) ==
  LET q == reqs[r] IN
  /\ q.pc = "dv_views"
  /\ views' = {w \in views : w.video # q.videoId}
  /\ Settle(r, Respond(q, 200, 200, "Video deleted successfully"))
  /\ deleted' = deleted \cup {q.videoId}
  /\ UNCHANGED <<videos, storage, nextVideoId, nextAssetId, nextViewId, total, faults>>

\* ------------------------------------------------------ a database call fails
DbCalls == {"pv_create", "getVideo", "gv_delete", "gv_create", "changeVideoFile",
            "changeThumbnail", "cf_update", "changeTitle", "changeDescription",
            "togglePublishStatus", "tp_save", "deleteVideo", "dv_row", "dv_views"}

\* The checks a handler makes before its first awaited call.
ValidInput(q) ==
  /\ q.kind # "publishVideo" => q.videoId # 0
  /\ q.kind \in {"changeVideoFile", "changeThumbnail"} => q.files # {}
  /\ q.kind = "changeTitle" => q.title # ""
  /\ q.kind = "changeDescription" => q.description # ""

\* The awaited promise rejects; the handler does not catch, asyncHandler does.
DbReject(r) ==
  LET q == reqs[r] IN
  /\ q.pc \in DbCalls
  /\ ValidInput(q)
  /\ CanFail
  /\ faults' = faults + 1
  /\ Settle(r, Throw(q, DbError))
  /\ UNCHANGED <<videos, views, storage, nextVideoId, nextAssetId, nextViewId,
                 total, deleted>>


\* ------------------------------------------------ User model: the password
Plains == {"secret123", "wrong"}
Salts == {"s1", "s2"}
Tokens == {"t1", "t2"}

\* A password value: a plaintext hashed h times, with the salt of each hashing.
Plain(p) == [h |-> 0, plain |-> p, salts |-> <<>>]
NoPassword == Plain("")
NoUserRow == [exists |-> FALSE, password |-> NoPassword, refreshToken |-> ""]

\* bcrypt.hash(value, 10): a salted hash of whatever string it is given.
BcryptHash(value, salt) ==
  [value EXCEPT !.h = @ + 1, !.salts = Append(@, salt)]

\* bcrypt.compare(data, encrypted): hashes data with encrypted's salt.
BcryptCompare(p, encrypted) ==
  /\ encrypted.h >= 1
  /\ BcryptHash(Plain(p), encrypted.salts[Len(encrypted.salts)]) = encrypted

\* A hook that hashes on every save, modified or not.
PreSaveAlways(doc, salt) ==
  [doc EXCEPT !.password = BcryptHash(doc.password, salt)]

\* userSchema.pre("save")
PreSave(doc, salt) ==
  IF "password" \in doc.modified
    THEN [doc EXCEPT !.password = BcryptHash(doc.password, salt)]
    ELSE doc

\* userSchema.methods.isPasswordCorrect
IsPasswordCorrect(doc, p) == BcryptCompare(p, doc.password)

\* user.password = p: the path is marked modified when the value changes.
UserSetPassword ==
  /\ \E p \in Plains :
       userDoc' = [userDoc EXCEPT
                     !.password = Plain(p),
                     !.assigned = p,
                     !.modified = IF userDoc.password = Plain(p)
                                    THEN @ ELSE @ \cup {"password"}]
  /\ UNCHANGED <<userStored, savedPlain, saves>>

\* user.refreshToken = t, the other field the application saves.
UserSetRefreshToken ==
  /\ \E t \in Tokens :
       userDoc' = [userDoc EXCEPT
                     !.refreshToken = t,
                     !.modified = IF userDoc.refreshToken = t
                                    THEN @ ELSE @ \cup {"refreshToken"}]
  /\ UNCHANGED <<userStored, savedPlain, saves>>

\* user.save(): the pre-save hook, then the write of the document.
UserSave ==
  /\ saves < MaxSaves
  /\ \E salt \in Salts :
       LET doc == PreSave(userDoc, salt) IN
       /\ userStored' = [exists |-> TRUE, password |-> doc.password,
                         refreshToken |-> doc.refreshToken]
       /\ userDoc' = [doc EXCEPT !.modified = {}]
  /\ savedPlain' = userDoc.assigned
  /\ saves' = saves + 1

\* User.findById: a fresh document of the stored row.
UserLoad ==
  /\ userStored.exists
  /\ userDoc' = [password |-> userStored.password,
                 refreshToken |-> userStored.refreshToken,
                 modified |-> {}, assigned |-> savedPlain]
  /\ UNCHANGED <<userStored, savedPlain, saves>>

\* ------------------------------------------- getVideos: pagination options
Digits == <<"0", "1", "2">>
DigitSet == {Digits[i] : i \in 1..Len(Digits)}
Chars == DigitSet \cup {"-", " ", "a"}
DigitValue(c) == CHOOSE i \in 0..(Len(Digits) - 1) : Digits[i + 1] = c

Strings == UNION {[1..n -> Chars] : n \in 0..MaxLen}
\* A query parameter: omitted, or a string.
Omitted == [given |-> FALSE, text |-> <<>>]
Params == {Omitted} \cup {[given |-> TRUE, text |-> t] : t \in Strings}

NaN == [nan |-> TRUE, val |-> 0]
Num(n) == [nan |-> FALSE, val |-> n]

RECURSIVE StripLeft(_)
StripLeft(s) == IF s # <<>> /\ Head(s) = " " THEN StripLeft(Tail(s)) ELSE s

RECURSIVE DigitsPrefix(_)
DigitsPrefix(s) ==
  IF s # <<>> /\ Head(s) \in DigitSet
    THEN <<Head(s)>> \o DigitsPrefix(Tail(s))
    ELSE <<>>

RECURSIVE Decimal(_)
Decimal(ds) ==
  IF ds = <<>> THEN 0
  ELSE 10 * Decimal(SubSeq(ds, 1, Len(ds) - 1)) + DigitValue(ds[Len(ds)])

\* parseInt(x): String(x), leading white space skipped, an optional sign, then
\* the longest run of digits; NaN when there is none (undefined: "undefined").
ParseInt(param) ==
  IF ~param.given THEN NaN
  ELSE LET t == StripLeft(param.text)
           signed == t # <<>> /\ Head(t) \in {"-", "+"}
           u == IF signed THEN Tail(t) ELSE t
           ds == DigitsPrefix(u)
       IN IF ds = <<>> THEN NaN
          ELSE Num(IF signed /\ Head(t) = "-" THEN 0 - Decimal(ds) ELSE Decimal(ds))

\* x || d: NaN and 0 are falsy.
OrDefault(x, d) == IF x.nan \/ x.val = 0 THEN d ELSE x.val

\* Options whose limit is parsed from the page parameter.
GetVideosOptionsCopied(page, limit) ==
  [page |-> OrDefault(ParseInt(page), 1), limit |-> OrDefault(ParseInt(page), 10)]

GetVideosOptions(page, limit) ==
  [page |-> OrDefault(ParseInt(page), 1), limit |-> OrDefault(ParseInt(limit), 10)]

NoListing == [pc |-> "idle", page |-> Omitted, limit |-> Omitted,
              options |-> [page |-> 0, limit |-> 0],
              match |-> "", sort |-> 0, resp |-> NoResp]

\* getVideos: the options, the pipeline's channel filter and sort direction,
\* the paginated aggregation and the answer. The aggregation gives a page
\* container, gives none, or rejects.
GetVideos ==
  /\ listing.pc = "received"
  /\ \E channelId \in {"", "u1"}, sortType \in {"inc", "dec"},
        result \in {"container", "none", "rejected"} :
       listing' =
         [listing EXCEPT
            !.pc = "done",
            !.options = GetVideosOptions(listing.page, listing.limit),
            !.match = IF result = "container" THEN channelId ELSE "",
            !.sort = IF result # "container" THEN 0
                     ELSE IF sortType = "inc" THEN 1 ELSE -1,
            !.resp = CASE result = "container" ->
                            JsonResponse(200, 200, "Videos fetched successfully")
                       [] result = "none" ->
                            ErrorDispatch(ApiError(500, "Something went wrong while fetching all videos"))
                       [] OTHER -> ErrorDispatch(DbError)]

\* ------------------------------------------------------------- specification
InitialVideo(p) ==
  [title |-> "a", description |-> "a", videoFile |-> 1, thumbnail |-> 2,
   publisher |-> "u1", isPublished |-> p]

NoVideoState ==
  /\ videos = <<>>
  /\ views = {}
  /\ storage = {}
  /\ nextVideoId = 1
  /\ nextAssetId = 1
  /\ nextViewId = 1
  /\ reqs = [r \in Slots |-> IdleReq]
  /\ last = IdleReq
  /\ total = 0
  /\ faults = 0
  /\ run = NoRun
  /\ deleted = {}

InitRest ==
  /\ userDoc = [password |-> NoPassword, refreshToken |-> "", modified |-> {},
                assigned |-> ""]
  /\ userStored = NoUserRow
  /\ savedPlain = ""
  /\ saves = 0
  /\ listing = NoListing

\* The database as an earlier publishVideo (and perhaps a toggle) left it.
Init ==
  /\ \E p \in BOOLEAN : videos = (1 :> InitialVideo(p))
  /\ views = {}
  /\ storage = {1, 2}
  /\ nextVideoId = 2
  /\ nextAssetId = 3
  /\ nextViewId = 1
  /\ reqs = [r \in Slots |-> IdleReq]
  /\ last = IdleReq
  /\ total = 0
  /\ faults = 0
  /\ run = NoRun
  /\ deleted = {}
  /\ InitRest

Step(r) ==
  \/ Receive(r)
  \/ PublishVideoUploadVideo(r)
  \/ PublishVideoUploadThumbnail(r)
  \/ PublishVideoCreate(r)
  \/ GetVideoAggregate(r)
  \/ GetVideoFindOneAndDelete(r)
  \/ GetVideoCreateView(r)
  \/ ChangeVideoFileFind(r)
  \/ ChangeVideoFileDeleteOld(r)
  \/ ChangeVideoFileUploadNew(r)
  \/ ChangeVideoFileUpdate(r)
  \/ ChangeThumbnailFind(r)
  \/ ChangeThumbnailDeleteOld(r)
  \/ ChangeThumbnailUploadNew(r)
  \/ ChangeThumbnailUpdate(r)
  \/ ChangeTitle(r)
  \/ ChangeDescription(r)
  \/ TogglePublishStatusFind(r)
  \/ TogglePublishStatusSave(r)
  \/ DeleteVideoFind(r)
  \/ DeleteVideoDeleteFile(r)
  \/ DeleteVideoDeleteThumbnail(r)
  \/ DeleteVideoDeleteRow(r)
  \/ DeleteVideoDeleteViews(r)
  \/ DbReject(r)

Next == \E r \in Slots : Step(r)

Spec == Init /\ [][Next]_vars


\* Requests that record and remove views, with the history of undisturbed runs.
ViewKinds == {"getVideo", "deleteVideo"}
MaxViewRequests == 4
ReceiveView(r) == ReceiveOf(r, ViewKinds, MaxViewRequests)

StepViews(r) ==
  \/ ReceiveView(r)
  \/ GetVideoAggregate(r)
  \/ GetVideoFindOneAndDelete(r)
  \/ GetVideoCreateView(r)
  \/ DeleteVideoFind(r)
  \/ DeleteVideoDeleteFile(r)
  \/ DeleteVideoDeleteThumbnail(r)
  \/ DeleteVideoDeleteRow(r)
  \/ DeleteVideoDeleteViews(r)
  \/ DbReject(r)

NextViews == \E r \in Slots : StepViews(r)

SpecViews == Init /\ [][NextViews]_vars

\* Requests that write the video row, with the history of undisturbed runs.
RowKinds == {"togglePublishStatus", "changeTitle", "changeDescription",
             "deleteVideo"}
MaxRowRequests == 3
ReceiveRow(r) == ReceiveOf(r, RowKinds, MaxRowRequests)

StepRow(r) ==
  \/ ReceiveRow(r)
  \/ TogglePublishStatusFind(r)
  \/ TogglePublishStatusSave(r)
  \/ ChangeTitle(r)
  \/ ChangeDescription(r)
  \/ DeleteVideoFind(r)
  \/ DeleteVideoDeleteFile(r)
  \/ DeleteVideoDeleteThumbnail(r)
  \/ DeleteVideoDeleteRow(r)
  \/ DeleteVideoDeleteViews(r)
  \/ DbReject(r)

NextRow == \E r \in Slots : StepRow(r)

SpecRow == Init /\ [][NextRow]_vars

\* The User model: a new document with a password, then assignments and saves.
InitUser ==
  /\ NoVideoState
  /\ \E p \in Plains :
       userDoc = [password |-> Plain(p), refreshToken |-> "",
                  modified |-> {"password"}, assigned |-> p]
  /\ userStored = NoUserRow
  /\ savedPlain = ""
  /\ saves = 0
  /\ listing = NoListing

NextUser ==
  /\ \/ UserSetPassword
     \/ UserSetRefreshToken
     \/ UserSave
     \/ UserLoad
  /\ UNCHANGED <<videoVars, run, listing>>

SpecUser == InitUser /\ [][NextUser]_vars

\* getVideos on every pair of page and limit parameters.
InitListing ==
  /\ NoVideoState
  /\ userDoc = [password |-> NoPassword, refreshToken |-> "", modified |-> {},
                assigned |-> ""]
  /\ userStored = NoUserRow
  /\ savedPlain = ""
  /\ saves = 0
  /\ \E page \in Params, limit \in Params :
       listing = [NoListing EXCEPT !.pc = "received", !.page = page,
                                   !.limit = limit]

NextListing ==
  /\ GetVideos
  /\ UNCHANGED <<videoVars, run, userVars>>

SpecListing == InitListing /\ [][NextListing]_vars


\* ===================================================================== claims
AllVideoIds == 1..(nextVideoId - 1)
MutationKinds == {"changeVideoFile", "changeThumbnail", "changeTitle",
                  "changeDescription", "togglePublishStatus", "deleteVideo"}

\* C1: after two (or more) successive completed getVideo requests by one
\* viewer for one video, run one after the other with no other request's step
\* in between, the View collection holds exactly one row for that (video,
\* viewer) pair, and it is the row the latest of them inserted.
C1_TwoFetchesLeaveOneView ==
  (run.key[1] = "getVideo" /\ run.cur = 0 /\ run.n >= 2) =>
    /\ Cardinality(ViewsOf(run.key[2], run.key[3])) = 1
    /\ \A w \in ViewsOf(run.key[2], run.key[3]) : w.id = run.last

\* C2: once a deleteVideo request has answered with success, the video row is
\* gone and no View row of that video id exists, then and at any later time.
C2_DeletedVideoHasNoViews ==
  \A v \in deleted : ~Exists(v) /\ {w \in views : w.video = v} = {}

\* C3: after n successive successful togglePublishStatus requests on a video,
\* run one after the other with no other request's step in between, the row is
\* the row as it was before them with the published flag negated n times: two
\* toggles give the original flag back, and no other field changes.
C3_ToggleTwiceRestores ==
  (run.key[1] = "togglePublishStatus" /\ run.cur = 0 /\ run.n >= 1) =>
    /\ Exists(run.key[2])
    /\ videos[run.key[2]] =
         [run.base EXCEPT !.isPublished = IF run.n % 2 = 0 THEN @ ELSE ~@]

\* Two toggles ran one after the other and the flag is back.
C3_Witness ==
  /\ run.key[1] = "togglePublishStatus" /\ run.cur = 0 /\ run.n = 2
  /\ Exists(run.key[2])
  /\ videos[run.key[2]].isPublished = run.base.isPublished

\* C4: every failure of a wrapped handler is forwarded exactly once to the
\* dispatcher, and the client receives a JSON answer with success false, the
\* error's message and the error's code as HTTP status (500 without a code).
C4_FailureAnsweredAsJson ==
  Failed(last) =>
    /\ last.nextCalls = 1
    /\ last.resp.kind = "json"
    /\ last.resp.success = FALSE
    /\ last.resp.message = last.err.message
    /\ last.resp.status = IF last.err.code = 0 THEN 500 ELSE last.err.code

\* The stored password is one hash application of the plaintext last assigned
\* and saved, and isPasswordCorrect accepts exactly that plaintext.
C5_StoredOnce ==
  userStored.exists =>
    /\ userStored.password.h = 1
    /\ userStored.password.plain = savedPlain
    /\ userStored.password # Plain(savedPlain)
    /\ \A p \in Plains : IsPasswordCorrect(userStored, p) <=> (p = savedPlain)

\* A save of a document whose password path is not modified does not re-hash.
C5_UnmodifiedSaveKeepsHash ==
  (saves' = saves + 1 /\ userStored.exists /\ "password" \notin userDoc.modified)
    => userStored'.password = userStored.password

\* C5: once the user has been saved, the stored password is exactly one hash
\* application of the plaintext last assigned and saved (never the plaintext,
\* never a hash of a hash), isPasswordCorrect(p) holds exactly for that
\* plaintext, and a save in which the password was not modified leaves the
\* stored hash as it was.
C5_PasswordHashedOnce == [](C5_StoredOnce) /\ [][C5_UnmodifiedSaveKeepsHash]_vars

\* A save of a document whose password was not touched, after a password change.
C5_Witness ==
  /\ saves >= 3
  /\ savedPlain = "wrong"
  /\ userStored.refreshToken # ""
  /\ userDoc.modified = {}
  /\ IsPasswordCorrect(userDoc, "wrong")

\* C6: what "numeric" and "valid" mean for a page / limit parameter.
RECURSIVE StripRight(_)
StripRight(s) ==
  IF s # <<>> /\ s[Len(s)] = " " THEN StripRight(SubSeq(s, 1, Len(s) - 1)) ELSE s

Unsigned(t) == IF t # <<>> /\ Head(t) \in {"-", "+"} THEN Tail(t) ELSE t
Sign(t) == IF t # <<>> /\ Head(t) = "-" THEN -1 ELSE 1

\* The whole string is a decimal integer, white space around it aside.
IsNumeral(text) ==
  LET u == Unsigned(StripRight(StripLeft(text))) IN
  u # <<>> /\ \A i \in 1..Len(u) : u[i] \in DigitSet

NumeralValue(text) ==
  LET t == StripRight(StripLeft(text)) IN Sign(t) * Decimal(Unsigned(t))

NonNumeric(param) == ~param.given \/ ~IsNumeral(param.text)
ValidPaginationInput(param) ==
  param.given /\ IsNumeral(param.text) /\ NumeralValue(param.text) >= 1

\* The string starts, after white space and a sign, with a digit.
HasLeadingInteger(param) ==
  /\ param.given
  /\ LET u == Unsigned(StripLeft(param.text)) IN u # <<>> /\ u[1] \in DigitSet

LeadingInteger(param) ==
  LET t == StripLeft(param.text)
      u == Unsigned(t)
      k == CHOOSE k \in 1..Len(u) :
             /\ \A i \in 1..k : u[i] \in DigitSet
             /\ k = Len(u) \/ u[k + 1] \notin DigitSet
  IN Sign(t) * Decimal(SubSeq(u, 1, k))

C6UsedAsStated(param, used, default) ==
  /\ NonNumeric(param) => used = default
  /\ ValidPaginationInput(param) => used = NumeralValue(param.text)

C6UsedAmended(param, used, default) ==
  /\ ~HasLeadingInteger(param) => used = default
  /\ ValidPaginationInput(param) => used = NumeralValue(param.text)
  /\ HasLeadingInteger(param) =>
       used = IF LeadingInteger(param) = 0 THEN default ELSE LeadingInteger(param)

C7_FailedStepEndsInError ==
  (last.pc = "done" /\ last.kind \in MutationKinds /\ last.stepFailed)
    => ~Succeeded(last)

\* C8: when no request is in flight, the View collection holds at most one
\* row per (video, viewer) pair.
C8_OneViewPerPair ==
  Quiescent =>
    \A v \in AllVideoIds, u \in Users : Cardinality(ViewsOf(v, u)) <= 1

\* C9: when no request is in flight (and no call has failed), every View row
\* refers to a video row that exists.
C9_NoOrphanViews ==
  (Quiescent /\ faults = 0) => \A w \in views : Exists(w.video)

\* C10: when no request is in flight, the videoFile and thumbnail of every
\* video row name assets that are present in object storage.
C10_MediaRefsPresent ==
  Quiescent =>
    \A v \in DOMAIN videos :
      videos[v].videoFile \in storage /\ videos[v].thumbnail \in storage

====
